---- MODULE Spec2Model ----
(***************************************************************************)
(* Model of DataManager (src/main.py), the sales ledger of the Sampath      *)
(* Food City sales analysis system: the in-memory table sales_data, the    *)
(* backing CSV file, the loader _load_data, the import add_data and the     *)
(* writer _save_data.                                                       *)
(*                                                                         *)
(* The backing file is text: every cell of it is a string.  The in-memory   *)
(* table holds typed cells (a number, a timestamp, a text, or the null      *)
(* NaN/NaT).  Reading and writing are modelled by what pandas does with    *)
(* each cell, so that writing a table and reading it back is a computation, *)
(* not the identity.                                                        *)
(***************************************************************************)
EXTENDS Integers, Sequences, FiniteSets, TLC

VARIABLES
    sales_data,  \* DataManager.sales_data: [cols, rows], rows in insertion order
    file,        \* the backing file DataManager.data_file on disk
    op,          \* the DataManager call that ran last: "init", "add_data" or a query's name
    result,      \* what the last add_data returned: "True", "False" ("None": no call yet)
    shown,       \* title of the messagebox the last call raised, "none" if it raised none
    raised,      \* TRUE when an exception escaped the last call
    args,        \* the arguments of the last call when it was a query, <<>> otherwise
    ret,         \* what the last call returned when it was a query, <<>> otherwise
    tie_order,   \* how this build's quicksort leaves equal keys: "kept" or "reversed"
    file_path,   \* DataImportPage.file_path, "" when no file is chosen
    preview_df,  \* DataImportPage.preview_df
    save_button, \* state of DataImportPage.save_button: "disabled" or "normal"
    handler,     \* the page handler that ran last, "" before any
    entries,     \* the date entries and the branch the last handler read, <<>> if none
    called,      \* the DataManager methods the last handler called, in order
    page_shown,  \* title of the messagebox the last handler itself raised, "none" if none
    handler_raised, \* TRUE when an exception escaped the last handler
    refreshed,   \* TRUE when the last handler invoked MainApp.update_all_page_dropdowns
    save_log,    \* outcomes of the _save_data calls of this run, oldest first
    pending,     \* button presses Tk has queued and not yet dispatched, oldest first
    active       \* the add_data calls that have read the ledger and not finished their write

\* the pages' part of the state
ui == <<file_path, preview_df, save_button, handler, entries, called, page_shown,
        handler_raised, refreshed, save_log, pending, active>>
vars == <<sales_data, file, op, result, shown, raised, args, ret, tie_order, ui>>

\* Cap on the number of ledger rows, so that the reachable ledgers are finitely many.
MaxRows == 2

Range(s) == {s[i] : i \in 1..Len(s)}

(***************************************************************************)
(* Cells.  An in-memory cell is a record [k, n, s]: kind, number, text.     *)
(***************************************************************************)
Null == [k |-> "nan", n |-> 0, s |-> ""]      \* NaN / NaT / None
Num(x) == [k |-> "num", n |-> x, s |-> ""]    \* int64 / float64 value
Str(t) == [k |-> "str", n |-> 0, s |-> t]     \* Python str in an object column
Ts(d) == [k |-> "ts", n |-> d, s |-> ""]      \* datetime64 value, d-th day of the calendar

\* The calendar days the model uses, ascending, as to_csv prints a datetime64
\* column and as read_csv / to_datetime parse it.
DateText == <<"2023-12-25", "2024-01-01", "2024-01-02", "2024-02-10">>
IsDateText(t) == t \in Range(DateText)
ParseDate(t) == CHOOSE d \in 1..Len(DateText) : DateText[d] = t

\* Decimal text of the numbers the model uses.
NumText == <<"0", "1", "2", "3", "4", "5">>
IsNumText(t) == t \in Range(NumText)
ParseNum(t) == (CHOOSE i \in 1..Len(NumText) : NumText[i] = t) - 1
FormatNum(x) == NumText[x + 1]

\* Strings that read_csv turns into NaN (its default na_values, keep_default_na=True).
NA_VALUES == {"", "NA", "N/A", "NaN", "nan", "NULL", "null", "None", "n/a", "#N/A"}

required_cols == <<"Date", "Branch", "Product", "Quantity", "UnitPrice", "Total">>
RequiredSet == Range(required_cols)
NumericCols == {"Quantity", "UnitPrice", "Total"}

\* pd.DataFrame(columns=[...six...]): the empty ledger.
EmptyFrame == [cols |-> required_cols, rows |-> <<>>]

(***************************************************************************)
(* The backing file.                                                        *)
(***************************************************************************)
AbsentFile == [kind |-> "absent", header |-> <<>>, lines |-> <<>>]
\* A file read_csv cannot parse: zero bytes, ragged or binary content.
UnparsableFile == [kind |-> "unparsable", header |-> <<>>, lines |-> <<>>]
CsvFile(h, ls) == [kind |-> "csv", header |-> h, lines |-> ls]

(***************************************************************************)
(* pandas operations used by DataManager.                                   *)
(***************************************************************************)
\* DataFrame.dropna(subset=required_cols): keep the rows with no null there.
dropna(rows) == SelectSeq(rows, LAMBDA r : \A c \in RequiredSet : r[c] # Null)

\* pd.to_numeric(x, errors='coerce') on one cell.
to_numeric(x) ==
    CASE x.k = "num" -> x
      [] x.k = "str" -> IF IsNumText(x.s) THEN Num(ParseNum(x.s)) ELSE Null
      [] OTHER -> Null

\* pd.to_datetime(x) on one cell whose parse does not raise.
to_datetime(x) ==
    CASE x.k = "ts" -> x
      [] x.k = "str" -> Ts(ParseDate(x.s))
      [] OTHER -> Null

\* pd.to_datetime(column) raises (errors='raise' is the default) on a text that
\* is no date.
to_datetime_raises(rows) ==
    \E i \in 1..Len(rows) : rows[i]["Date"].k = "str" /\ ~IsDateText(rows[i]["Date"].s)

\* The four coercions of add_data / the three of _load_data, on one row.
coerce_numeric(r) == [c \in DOMAIN r |-> IF c \in NumericCols THEN to_numeric(r[c]) ELSE r[c]]
coerce_date(r) == [c \in DOMAIN r |-> IF c = "Date" THEN to_datetime(r[c]) ELSE r[c]]

MapRows(F(_), rows) == [i \in 1..Len(rows) |-> F(rows[i])]

\* read_csv(path, parse_dates=['Date']): type inference is per column.
NonNA(f, c) == {i \in 1..Len(f.lines) : f.lines[i][c] \notin NA_VALUES}
DateColumnParses(f) == \A i \in NonNA(f, "Date") : IsDateText(f.lines[i]["Date"])
NumericColumn(f, c) == \A i \in NonNA(f, c) : IsNumText(f.lines[i][c])
read_cell(f, c, i) ==
    LET t == f.lines[i][c] IN
    IF t \in NA_VALUES THEN Null
    ELSE IF c = "Date"
         \* a Date column with one unparsable value is returned unaltered, as text
         THEN (IF DateColumnParses(f) THEN Ts(ParseDate(t)) ELSE Str(t))
         ELSE (IF NumericColumn(f, c) THEN Num(ParseNum(t)) ELSE Str(t))
read_csv(f) ==
    [cols |-> f.header,
     rows |-> [i \in 1..Len(f.lines) |-> [c \in Range(f.header) |-> read_cell(f, c, i)]]]

\* read_csv raises on an unparsable file and on a missing parse_dates column;
\* df['Quantity'] etc. and dropna(subset=...) raise KeyError on a missing column.
load_raises(f) == f.kind = "unparsable" \/ ~(RequiredSet \subseteq Range(f.header))

\* DataFrame.to_csv(path, index=False): the text of one cell, and the whole file.
cell_text(x) ==
    CASE x.k = "num" -> FormatNum(x.n)
      [] x.k = "ts" -> DateText[x.n]
      [] x.k = "str" -> x.s
      [] OTHER -> ""
to_csv_last_row(df) ==
    CsvFile(df.cols,
            [i \in 1..(IF df.rows = <<>> THEN 0 ELSE 1) |->
                [c \in Range(df.cols) |-> cell_text(df.rows[Len(df.rows)][c])]])
to_csv(df) ==
    CsvFile(df.cols,
            [i \in 1..Len(df.rows) |-> [c \in Range(df.cols) |-> cell_text(df.rows[i][c])]])

\* concat with its two frames in the wrong order: pd.concat([new_df, self.sales_data]).
concat_swapped(a, b) ==
    LET cols == a.cols \o SelectSeq(b.cols, LAMBDA c : c \notin Range(a.cols))
        Widen(r) == [c \in Range(cols) |-> IF c \in DOMAIN r THEN r[c] ELSE Null]
    IN [cols |-> cols, rows |-> MapRows(Widen, b.rows) \o MapRows(Widen, a.rows)]

\* pd.concat([a, b], ignore_index=True): the columns of a, then those only b has;
\* a cell of a column the frame does not have is NaN.
concat(a, b) ==
    LET cols == a.cols \o SelectSeq(b.cols, LAMBDA c : c \notin Range(a.cols))
        Widen(r) == [c \in Range(cols) |-> IF c \in DOMAIN r THEN r[c] ELSE Null]
    IN [cols |-> cols, rows |-> MapRows(Widen, a.rows) \o MapRows(Widen, b.rows)]

\* _load_data without its try/except: the reader's exception escapes.
_load_data_uncaught(f) ==
    IF f.kind # "absent"
    THEN IF load_raises(f)
         THEN [df |-> EmptyFrame, shown |-> "none", raised |-> TRUE]
         ELSE LET df == read_csv(f) IN
              [df |-> [cols |-> df.cols, rows |-> dropna(MapRows(coerce_numeric, df.rows))],
               shown |-> "none", raised |-> FALSE]
    ELSE [df |-> EmptyFrame, shown |-> "none", raised |-> FALSE]

(***************************************************************************)
(* DataManager._load_data                                                   *)
(***************************************************************************)
_load_data(f) ==
    IF f.kind # "absent"
    THEN IF load_raises(f)
         THEN [df |-> EmptyFrame, shown |-> "Data Load Error", raised |-> FALSE]
         ELSE LET df == read_csv(f) IN
              [df |-> [cols |-> df.cols, rows |-> dropna(MapRows(coerce_numeric, df.rows))],
               shown |-> "none", raised |-> FALSE]
    ELSE [df |-> EmptyFrame, shown |-> "none", raised |-> FALSE]

(***************************************************************************)
(* DataManager._save_data: the outcomes of to_csv on the backing file.  The *)
(* file is opened for writing, which truncates it, and the rows are then   *)
(* streamed into it: a failure to open leaves the file as it was, a failure *)
(* after that leaves a truncated file.  Every failure is caught and shown.  *)
(***************************************************************************)
Truncations(f) ==
    {UnparsableFile} \cup {CsvFile(f.header, SubSeq(f.lines, 1, k)) : k \in 0..(Len(f.lines) - 1)}

\* _save_data that appends to the file (to_csv(..., mode='a')) instead of rewriting it.
_save_data_append(old, df) ==
    {[file |-> IF old.kind = "csv" THEN CsvFile(old.header, old.lines \o to_csv(df).lines)
                                   ELSE to_csv(df),
      shown |-> "none"]}
    \cup {[file |-> old, shown |-> "Save Error"]}
    \cup {[file |-> t, shown |-> "Save Error"] : t \in Truncations(to_csv(df))}

_save_data(old, df) ==
    {[file |-> to_csv(df), shown |-> "none"]}
    \cup {[file |-> old, shown |-> "Save Error"]}
    \cup {[file |-> t, shown |-> "Save Error"] : t \in Truncations(to_csv(df))}

(***************************************************************************)
(* DataManager.add_data(new_df)                                             *)
(***************************************************************************)
has_required(new_df) == \A c \in RequiredSet : c \in Range(new_df.cols)

cleaned(new_df) == dropna(MapRows(coerce_numeric, MapRows(coerce_date, new_df.rows)))

\* the missing-columns exit falling back to the empty frame, as _load_data does on error
missing_columns_exit_reset ==
    /\ shown' = "Import Error"
    /\ result' = "False"
    /\ sales_data' = EmptyFrame
    /\ UNCHANGED file

\* showerror("Import Error", ...); return False
missing_columns_exit ==
    /\ shown' = "Import Error"
    /\ result' = "False"
    /\ UNCHANGED <<sales_data, file>>

\* the ledger given up on a conversion error
conversion_error_exit_cleared ==
    /\ shown' = "Data Conversion Error"
    /\ result' = "False"
    /\ sales_data' = EmptyFrame
    /\ UNCHANGED file

\* except Exception: showerror("Data Conversion Error", ...); return False
conversion_error_exit ==
    /\ shown' = "Data Conversion Error"
    /\ result' = "False"
    /\ UNCHANGED <<sales_data, file>>

\* showwarning("No Valid Data", ...); return False
no_valid_data_exit ==
    /\ shown' = "No Valid Data"
    /\ result' = "False"
    /\ UNCHANGED <<sales_data, file>>

\* the emptiness test left out
is_empty_unchecked(rows) == FALSE

\* new_df.empty, after the dropna
is_empty(rows) == Len(rows) = 0

add_data(new_df) ==
    /\ op' = "add_data"
    /\ raised' = FALSE
    /\ args' = <<>>
    /\ ret' = <<>>
    /\ UNCHANGED tie_order
    /\ IF ~has_required(new_df) THEN missing_columns_exit
       ELSE IF to_datetime_raises(new_df.rows) THEN conversion_error_exit
       ELSE LET valid == cleaned(new_df) IN
            IF is_empty(valid) THEN no_valid_data_exit
            ELSE /\ Len(sales_data.rows) + Len(valid) <= MaxRows
                 /\ result' = "True"
                 /\ sales_data' = concat(sales_data, [cols |-> new_df.cols, rows |-> valid])
                 /\ \E o \in _save_data(file, sales_data') :
                       /\ file' = o.file
                       /\ shown' = o.shown

(***************************************************************************)
(* DataManager.__init__: a DataManager is constructed on the backing file   *)
(* (at start-up, and again whenever the program is started anew).           *)
(***************************************************************************)
Construct ==
    LET l == _load_data(file) IN
    /\ sales_data' = l.df
    /\ shown' = l.shown
    /\ raised' = l.raised
    /\ op' = "init"
    /\ result' = "None"
    /\ args' = <<>>
    /\ ret' = <<>>
    /\ UNCHANGED <<file, tie_order>>

(***************************************************************************)
(* The queries.  Each is an operator of the ledger sd and of its arguments  *)
(* that gives [raised, ret]: whether the call raised, and what it returned. *)
(***************************************************************************)
\* Year, month and day name of the calendar days of DateText (.dt.year,
\* .dt.month, .dt.day_name()).
YearOf == <<2023, 2024, 2024, 2024>>
MonthOf == <<12, 1, 1, 2>>
DayNameOf == <<"Monday", "Monday", "Tuesday", "Saturday">>
WeekDays == <<"Monday", "Tuesday", "Wednesday", "Thursday", "Friday", "Saturday", "Sunday">>

\* The texts of the model in the order sorted() and groupby() put them.
Alphabetical == <<"All Branches", "Bread", "Colombo", "Kandy", "Milk", "NA">>

Returned(v) == [raised |-> FALSE, ret |-> v]
Raised == [raised |-> TRUE, ret |-> <<>>]

\* DataFrame.empty
empty(sd) == Len(sd.rows) = 0

\* The Date column is of dtype object, not datetime64: it holds a text.  The
\* .dt accessor raises AttributeError on it, and comparing it with a datetime
\* raises TypeError.
date_is_object(sd) == \E i \in 1..Len(sd.rows) : sd.rows[i]["Date"].k # "ts"

\* the filter without the "All Branches" entry
branch_filter_exact(rows, branch) ==
    IF branch # "" THEN SelectSeq(rows, LAMBDA r : r["Branch"] = Str(branch)) ELSE rows

\* if branch and branch != "All Branches": df = df[df['Branch'] == branch]
branch_filter(rows, branch) ==
    IF branch # "" /\ branch # "All Branches"
    THEN SelectSeq(rows, LAMBDA r : r["Branch"] = Str(branch))
    ELSE rows

\* df[(df['Date'] >= start) & (df['Date'] <= end)]
range_filter(rows, start, end) ==
    SelectSeq(rows, LAMBDA r : r["Date"].n >= start /\ r["Date"].n <= end)

\* Series.sum() of a numeric column.
RECURSIVE col_sum(_, _)
col_sum(rows, c) == IF rows = <<>> THEN 0 ELSE rows[1][c].n + col_sum(Tail(rows), c)

\* Series.mean(): the sum over the count, kept as a fraction.
col_mean(rows, c) == [num |-> col_sum(rows, c), den |-> Len(rows)]

\* The keys of groupby('Product'), sorted as groupby sorts them.
product_keys(rows) ==
    SelectSeq(Alphabetical, LAMBDA p : \E i \in 1..Len(rows) : rows[i]["Product"] = Str(p))
product_group(rows, p) == SelectSeq(rows, LAMBDA r : r["Product"] = Str(p))

\* sorted(column.unique().tolist()) of a text column.
sorted_unique_as_stored(rows, c) == [i \in 1..Len(rows) |-> rows[i][c].s]
sorted_unique(rows, c) ==
    SelectSeq(Alphabetical, LAMBDA t : \E i \in 1..Len(rows) : rows[i][c] = Str(t))

\* get_branches / get_products
get_branches(sd) == Returned(IF ~empty(sd) THEN sorted_unique(sd.rows, "Branch") ELSE <<>>)
get_products(sd) == Returned(IF ~empty(sd) THEN sorted_unique(sd.rows, "Product") ELSE <<>>)

\* get_years; now is datetime.now().
ledger_years(sd) == {YearOf[sd.rows[i]["Date"].n] : i \in 1..Len(sd.rows)}
RECURSIVE ascending(_)
ascending(S) ==
    IF S = {} THEN <<>>
    ELSE LET m == CHOOSE x \in S : \A y \in S : x <= y IN <<m>> \o ascending(S \ {m})
get_years_clocked(sd, now) == Returned(<<now>>)
get_years(sd, now) ==
    IF ~empty(sd) /\ "Date" \in Range(sd.cols)
    THEN IF date_is_object(sd) THEN Raised ELSE Returned(ascending(ledger_years(sd)))
    ELSE Returned(<<now>>)

\* pd.DataFrame(columns=[...]) and a frame with rows.
Frame(cols, rows) == [cols |-> cols, rows |-> rows]

\* get_monthly_sales(branch, year, month); 0 stands for a year or month that
\* is None (the code tests "if year:").
monthly_row(rows, p) ==
    LET g == product_group(rows, p) IN
    [Product |-> p, Quantity |-> col_sum(g, "Quantity"),
     UnitPrice |-> col_mean(g, "UnitPrice"), Total |-> col_sum(g, "Total")]
get_monthly_sales(sd, branch, year, month) ==
    LET cols == <<"Product", "Quantity", "UnitPrice", "Total">>
        by_branch == branch_filter(sd.rows, branch)
        by_year == IF year # 0
                   THEN SelectSeq(by_branch, LAMBDA r : YearOf[r["Date"].n] = year)
                   ELSE by_branch
        by_month == IF month # 0
                    THEN SelectSeq(by_year, LAMBDA r : MonthOf[r["Date"].n] = month)
                    ELSE by_year
        keys == product_keys(by_month)
    IN IF empty(sd) THEN Returned(Frame(cols, <<>>))
       ELSE IF (year # 0 \/ month # 0) /\ date_is_object(sd) THEN Raised
       ELSE IF by_month = <<>> THEN Returned(Frame(cols, <<>>))
       ELSE Returned(Frame(cols, [i \in 1..Len(keys) |-> monthly_row(by_month, keys[i])]))

\* DataFrame.sort_values(by=...), kind='quicksort': the rows by key, ascending
\* or descending.  Quicksort is not stable; rows of equal key come out in the
\* order they had (tie = "kept") or in the opposite order (tie = "reversed").
\* ps is a sequence of [key, row].
RemoveAt(ps, i) == SubSeq(ps, 1, i - 1) \o SubSeq(ps, i + 1, Len(ps))
RECURSIVE sort_values(_, _, _)
sort_values(ps, descending, tie) ==
    IF ps = <<>> THEN <<>>
    ELSE LET best == {i \in 1..Len(ps) :
                        \A j \in 1..Len(ps) :
                            IF descending THEN ps[i].key >= ps[j].key ELSE ps[i].key <= ps[j].key}
             pick == IF tie = "kept" THEN CHOOSE i \in best : \A j \in best : i <= j
                                     ELSE CHOOSE i \in best : \A j \in best : i >= j
         IN <<ps[pick].row>> \o sort_values(RemoveAt(ps, pick), descending, tie)

\* DataFrame.drop_duplicates(): the first of equal rows is kept.
RECURSIVE drop_duplicates(_)
drop_duplicates(rows) ==
    IF rows = <<>> THEN <<>>
    ELSE LET init == drop_duplicates(SubSeq(rows, 1, Len(rows) - 1))
             last == rows[Len(rows)]
         IN IF last \in Range(init) THEN init ELSE Append(init, last)

\* The sort key of a Date cell: a timestamp by its day, a text by the order of
\* texts (the text of a date as the date, any other text after the digits).
date_key(x) ==
    IF x.k = "ts" THEN x.n
    ELSE IF IsDateText(x.s) THEN ParseDate(x.s) ELSE Len(DateText) + 1

\* get_product_price_history(product_name)
get_product_price_history(sd, product_name, tie) ==
    LET cols == <<"Date", "UnitPrice">>
        picked == SelectSeq(sd.rows, LAMBDA r : r["Product"] = Str(product_name))
        pairs == drop_duplicates([i \in 1..Len(picked) |->
                    [Date |-> picked[i]["Date"], UnitPrice |-> picked[i]["UnitPrice"].n]])
        \* sorting a column that mixes texts and timestamps compares the two: TypeError
        mixed == \E i, j \in 1..Len(pairs) : pairs[i]["Date"].k # pairs[j]["Date"].k
    IN IF empty(sd) THEN Returned(Frame(cols, <<>>))
       ELSE IF mixed THEN Raised
       ELSE Returned(Frame(cols,
                sort_values([i \in 1..Len(pairs) |->
                                [key |-> date_key(pairs[i]["Date"]), row |-> pairs[i]]],
                            FALSE, tie)))

\* get_weekly_sales(start_date, end_date, branch)
zero_week_empty == Frame(<<"DayOfWeek", "Total">>, <<>>)
zero_week ==
    Frame(<<"DayOfWeek", "Total">>,
          [i \in 1..Len(WeekDays) |-> [DayOfWeek |-> WeekDays[i], Total |-> 0]])
get_weekly_sales(sd, start_date, end_date, branch) ==
    LET df == branch_filter(range_filter(sd.rows, start_date, end_date), branch)
        on(d) == SelectSeq(df, LAMBDA r : DayNameOf[r["Date"].n] = d)
    IN IF empty(sd) THEN Returned(zero_week)
       ELSE IF date_is_object(sd) THEN Raised
       ELSE IF df = <<>> THEN Returned(zero_week)
       ELSE Returned(Frame(<<"DayOfWeek", "Total">>,
                [i \in 1..Len(WeekDays) |->
                    [DayOfWeek |-> WeekDays[i], Total |-> col_sum(on(WeekDays[i]), "Total")]]))

\* get_product_preferences(date_range, branch); <<>> stands for a date_range
\* that is None.
preference_row(rows, p) ==
    LET g == product_group(rows, p) IN
    [Product |-> p, UnitsSold |-> col_sum(g, "Quantity"), Revenue |-> col_sum(g, "Total")]
get_product_preferences(sd, date_range, branch, tie) ==
    LET cols == <<"Product", "UnitsSold", "Revenue">>
        in_range == IF date_range # <<>>
                    THEN range_filter(sd.rows, date_range[1], date_range[2])
                    ELSE sd.rows
        df == branch_filter(in_range, branch)
        keys == product_keys(df)
        grouped == [i \in 1..Len(keys) |-> preference_row(df, keys[i])]
    IN IF empty(sd) THEN Returned(Frame(cols, <<>>))
       ELSE IF date_range # <<>> /\ date_is_object(sd) THEN Raised
       ELSE IF df = <<>> THEN Returned(Frame(cols, <<>>))
       ELSE Returned(Frame(cols,
                sort_values([i \in 1..Len(grouped) |->
                                [key |-> grouped[i].UnitsSold, row |-> grouped[i]]],
                            TRUE, tie)))

\* get_sales_distribution(date_range, branch): a Series, its name and values.
\* pd.Series(dtype='float64') has no name.
get_sales_distribution(sd, date_range, branch) ==
    LET in_range == IF date_range # <<>>
                    THEN range_filter(sd.rows, date_range[1], date_range[2])
                    ELSE sd.rows
        df == branch_filter(in_range, branch)
    IN IF empty(sd) THEN Returned([name |-> "", values |-> <<>>])
       ELSE IF date_range # <<>> /\ date_is_object(sd) THEN Raised
       ELSE Returned([name |-> "Total", values |-> [i \in 1..Len(df) |-> df[i]["Total"].n]])

(***************************************************************************)
(* Inputs: the rows a caller can hand to add_data, the lines a backing      *)
(* file can hold at start-up.                                               *)
(***************************************************************************)
Row(d, b, p, q, u, t) ==
    [Date |-> d, Branch |-> b, Product |-> p, Quantity |-> q, UnitPrice |-> u, Total |-> t]

GoodRow1 == Row(Str("2024-01-01"), Str("Colombo"), Str("Milk"), Num(2), Num(1), Num(2))
GoodRow2 == Row(Ts(3), Str("Kandy"), Str("Bread"), Str("1"), Num(3), Num(3))
\* a branch whose name is a text read_csv takes for a missing value
GoodRowNA == Row(Str("2024-02-10"), Str("NA"), Str("Milk"), Num(1), Num(2), Num(2))

\* a branch that bears the name of the pages' "All Branches" entry
GoodRowAll == Row(Ts(1), Str("All Branches"), Str("Bread"), Num(1), Num(4), Num(4))

GoodRows == {GoodRow1, GoodRow2, GoodRowNA}
BadRows ==
    {[GoodRow1 EXCEPT !["Date"] = Str("not a date")],
     [GoodRow1 EXCEPT !["Date"] = Null],
     [GoodRow1 EXCEPT !["Branch"] = Null],
     [GoodRow2 EXCEPT !["Product"] = Null],
     [GoodRow1 EXCEPT !["Quantity"] = Str("abc")],
     [GoodRow2 EXCEPT !["UnitPrice"] = Null],
     [GoodRow1 EXCEPT !["Total"] = Str("abc")]}
CandidateRows == GoodRows \cup BadRows

Without(r, c) == [x \in (DOMAIN r) \ {c} |-> r[x]]

\* The tables handed to add_data: the empty table, every single row, pairs of
\* good rows (in both orders, and a row twice), a good row before each bad row
\* and after some, pairs of bad rows, and tables that lack one of the required
\* columns.
FullTables ==
    {<<>>} \cup {<<r>> : r \in CandidateRows} \cup {<<GoodRowAll>>}
    \cup {<<GoodRow1, GoodRow2>>, <<GoodRow2, GoodRow1>>, <<GoodRow1, GoodRow1>>,
          <<GoodRowNA, GoodRow1>>}
    \cup {<<GoodRow1, b>> : b \in BadRows}
    \cup {<<[GoodRow1 EXCEPT !["Date"] = Str("not a date")], GoodRow2>>,
          <<[GoodRow1 EXCEPT !["Total"] = Str("abc")], GoodRow2>>}
    \cup {<<[GoodRow1 EXCEPT !["Quantity"] = Str("abc")], [GoodRow1 EXCEPT !["Branch"] = Null]>>,
          <<[GoodRow1 EXCEPT !["Date"] = Null], [GoodRow1 EXCEPT !["Total"] = Str("abc")]>>}
Candidates ==
    {[cols |-> required_cols, rows |-> rs] : rs \in FullTables}
    \cup {[cols |-> SelectSeq(required_cols, LAMBDA x : x # c),
           rows |-> MapRows(LAMBDA r : Without(r, c), rs)] :
             c \in RequiredSet, rs \in {<<GoodRow1>>, <<GoodRow2, GoodRow1>>}}

\* The backing files the program can find at start-up.
Line(d, b, p, q, u, t) ==
    [Date |-> d, Branch |-> b, Product |-> p, Quantity |-> q, UnitPrice |-> u, Total |-> t]
GoodLine1 == Line("2024-01-01", "Colombo", "Milk", "2", "1", "2")
GoodLine2 == Line("2024-01-02", "Kandy", "Bread", "1", "3", "3")
\* a sale of the Monday one week before GoodLine1's
GoodLine0 == Line("2023-12-25", "Colombo", "Milk", "1", "1", "1")
BadLines ==
    {Line("not a date", "Kandy", "Milk", "1", "2", "2"),
     Line("", "Colombo", "Milk", "2", "1", "2"),
     Line("2024-01-01", "Colombo", "", "2", "1", "2"),
     Line("2023-12-25", "Kandy", "Bread", "abc", "3", "3")}
InitFiles ==
    {AbsentFile, UnparsableFile}
    \cup {CsvFile(required_cols, ls) :
            ls \in {<<>>, <<GoodLine1>>, <<GoodLine2>>, <<GoodLine1, GoodLine2>>,
                    <<GoodLine2, GoodLine1>>, <<GoodLine0, GoodLine1>>}
                   \cup {<<b>> : b \in BadLines}
                   \cup {<<GoodLine1, b>> : b \in BadLines}}
    \cup {CsvFile(SelectSeq(required_cols, LAMBDA x : x # c), <<Without(GoodLine1, c)>>) :
            c \in {"Date", "Branch", "Quantity"}}

\* preview_df = None
NoDf == [cols |-> <<"None">>, rows |-> <<>>]
\* The pages as their constructors leave them (DataImportPage.__init__ and
\* create_upload_controls).
PagesInit ==
    /\ file_path = ""
    /\ preview_df = NoDf
    /\ save_button = "disabled"
    /\ handler = ""
    /\ entries = <<>>
    /\ called = <<>>
    /\ page_shown = "none"
    /\ handler_raised = FALSE
    /\ refreshed = FALSE
    /\ save_log = <<>>
    /\ pending = <<>>
    /\ active = <<>>

\* The program after DataManager(data_file); tie is what the build's quicksort
\* does with rows of equal key.
Start(tie) ==
    \E f \in InitFiles :
        /\ file = f
        /\ sales_data = _load_data(f).df
        /\ shown = _load_data(f).shown
        /\ raised = _load_data(f).raised
        /\ op = "init"
        /\ result = "None"
        /\ args = <<>>
        /\ ret = <<>>
        /\ tie_order = tie
        /\ PagesInit

\* Loading and importing sort nothing.
Init == Start("kept")

Next ==
    \/ \E new_df \in Candidates : add_data(new_df) /\ UNCHANGED ui
    \/ Construct /\ UNCHANGED ui

Spec == Init /\ [][Next]_vars

(***************************************************************************)
(* The queries.  A query reads the ledger and answers; the pages call the  *)
(* queries with the branch, year, month, product and dates picked on       *)
(* screen.                                                                  *)
(***************************************************************************)
Queries == {"get_branches", "get_products", "get_years", "get_monthly_sales",
            "get_product_price_history", "get_weekly_sales",
            "get_product_preferences", "get_sales_distribution"}

\* What a query leaves behind: its answer, and the ledger and the file as
\* they were (the queries work on self.sales_data.copy() or on a selection).
query_filtering(name, a, out) ==
    /\ op' = name
    /\ args' = a
    /\ raised' = out.raised
    /\ ret' = out.ret
    /\ result' = "None"
    /\ shown' = "none"
    /\ sales_data' = [sales_data EXCEPT !.rows = branch_filter(@, "Colombo")]
    /\ UNCHANGED <<file, tie_order>>
query(name, a, out) ==
    /\ op' = name
    /\ args' = a
    /\ raised' = out.raised
    /\ ret' = out.ret
    /\ result' = "None"
    /\ shown' = "none"
    /\ UNCHANGED <<sales_data, file, tie_order>>

\* The arguments the pages pass: "" is no branch, 0 no year or month, <<>> no
\* date range; dates are days of DateText.
Clock == {2026, 2027}
BranchArgs == {"", "All Branches", "Colombo"}
PeriodArgs == {<<0, 0>>, <<2024, 0>>, <<2024, 1>>}
ProductArgs == {"Milk", "Bread"}
WeekArgs == {<<1, 3>>, <<2, 2>>}
RangeArgs == {<<>>, <<2, 3>>}

GetBranches == query("get_branches", <<>>, get_branches(sales_data))
GetProducts == query("get_products", <<>>, get_products(sales_data))
GetYears == \E now \in Clock : query("get_years", <<>>, get_years(sales_data, now))
GetMonthlySales ==
    \E branch \in BranchArgs, ym \in PeriodArgs :
        query("get_monthly_sales", <<branch, ym[1], ym[2]>>,
              get_monthly_sales(sales_data, branch, ym[1], ym[2]))
GetProductPriceHistory ==
    \E product_name \in ProductArgs :
        query("get_product_price_history", <<product_name>>,
              get_product_price_history(sales_data, product_name, tie_order))
GetWeeklySales ==
    \E w \in WeekArgs, branch \in BranchArgs :
        query("get_weekly_sales", <<w[1], w[2], branch>>,
              get_weekly_sales(sales_data, w[1], w[2], branch))
GetProductPreferences ==
    \E date_range \in RangeArgs, branch \in BranchArgs :
        query("get_product_preferences", <<date_range, branch>>,
              get_product_preferences(sales_data, date_range, branch, tie_order))
GetSalesDistribution ==
    \E date_range \in RangeArgs, branch \in BranchArgs :
        query("get_sales_distribution", <<date_range, branch>>,
              get_sales_distribution(sales_data, date_range, branch))

QInit == \E tie \in {"kept", "reversed"} : Start(tie)
QNext ==
    \/ \E new_df \in Candidates : add_data(new_df) /\ UNCHANGED ui
    \/ Construct /\ UNCHANGED ui
    \/ GetBranches /\ UNCHANGED ui
    \/ GetProducts /\ UNCHANGED ui
    \/ GetYears /\ UNCHANGED ui
    \/ GetMonthlySales /\ UNCHANGED ui
    \/ GetProductPriceHistory /\ UNCHANGED ui
    \/ GetWeeklySales /\ UNCHANGED ui
    \/ GetProductPreferences /\ UNCHANGED ui
    \/ GetSalesDistribution /\ UNCHANGED ui
QSpec == QInit /\ [][QNext]_vars

(***************************************************************************)
(* Vocabulary of the claims: what the specification calls a valid record.   *)
(***************************************************************************)
LacksColumn(df) == \E c \in RequiredSet : c \notin Range(df.cols)

\* A cell that coercion accepts: a date (or the text of one), a number (or the
\* text of one), a branch or product that is present.
CellValid(c, x) ==
    IF c = "Date" THEN x.k = "ts" \/ (x.k = "str" /\ IsDateText(x.s))
    ELSE IF c \in NumericCols THEN x.k = "num" \/ (x.k = "str" /\ IsNumText(x.s))
    ELSE x # Null
RowValid(r) == \A c \in RequiredSet : CellValid(c, r[c])

\* A valid row as the ledger is to hold it: a parsed date, numbers.
Typed(r) ==
    [c \in DOMAIN r |->
        IF c = "Date" /\ r[c].k = "str" THEN Ts(ParseDate(r[c].s))
        ELSE IF c \in NumericCols /\ r[c].k = "str" THEN Num(ParseNum(r[c].s))
        ELSE r[c]]
ValidRows(df) == MapRows(Typed, SelectSeq(df.rows, RowValid))

\* A ledger record with all six fields present, a parsed date, numeric amounts.
RecordWellFormed(r) ==
    /\ RequiredSet \subseteq DOMAIN r
    /\ \A c \in RequiredSet : r[c] # Null
    /\ r["Date"].k = "ts"
    /\ \A c \in NumericCols : r[c].k = "num"

\* The file holds exactly the table: its header is the table's columns and its
\* i-th line is the text of the table's i-th row.
FileHolds(f, df) ==
    /\ f.kind = "csv"
    /\ f.header = df.cols
    /\ Len(f.lines) = Len(df.rows)
    /\ \A i \in 1..Len(df.rows) : \A c \in Range(df.cols) : f.lines[i][c] = cell_text(df.rows[i][c])

\* C1: add_data of a table that lacks a required column returns failure and
\* leaves the in-memory ledger and the backing file as they were.
C1_MissingColumnsRejected ==
    [][\A df \in Candidates :
         (LacksColumn(df) /\ add_data(df)) =>
            (result' = "False" /\ sales_data' = sales_data /\ file' = file)]_vars
C1_Witness ==
    op = "add_data" /\ shown = "Import Error" /\ result = "False" /\ Len(sales_data.rows) > 0

\* C2: a successful add_data leaves the ledger equal to the ledger before the
\* call followed by the candidate's valid rows in candidate order; nothing is
\* deduplicated.
C2_AppendPreservesPrior ==
    [][\A df \in Candidates :
         (result' = "True" /\ add_data(df)) =>
            sales_data'.rows = sales_data.rows \o ValidRows(df)]_vars
\* the same row twice in the ledger after a successful import
C2_Witness ==
    /\ op = "add_data" /\ result = "True"
    /\ \E i, j \in 1..Len(sales_data.rows) : i < j /\ sales_data.rows[i] = sales_data.rows[j]

\* C3: add_data of a table that has the six columns and no valid row returns
\* failure and leaves the ledger and the backing file as they were.
C3_NoValidRowsRejected ==
    [][\A df \in Candidates :
         (~LacksColumn(df) /\ (\A i \in 1..Len(df.rows) : ~RowValid(df.rows[i])) /\ add_data(df)) =>
            (result' = "False" /\ sales_data' = sales_data /\ file' = file)]_vars
C3_Witness ==
    op = "add_data" /\ shown = "No Valid Data" /\ result = "False" /\ Len(sales_data.rows) > 0

\* C4: add_data of a table that has the six columns and at least one valid row
\* succeeds and appends exactly the valid rows, whatever field the other rows
\* are invalid in (an unparsable Date included).
C4_BadRowNeverAborts ==
    [][\A df \in Candidates :
         (~LacksColumn(df) /\ (\E i \in 1..Len(df.rows) : RowValid(df.rows[i])) /\ add_data(df)) =>
            (result' = "True" /\ sales_data'.rows = sales_data.rows \o ValidRows(df))]_vars

\* C5: every record of the in-memory ledger has the six fields present, a
\* parsed date and numeric Quantity, UnitPrice and Total.
C5_LedgerWellFormed ==
    \A i \in 1..Len(sales_data.rows) : RecordWellFormed(sales_data.rows[i])

\* C6: after a successful add_data whose write succeeded, the backing file
\* holds exactly the whole in-memory ledger.
C6_FileIsWholeLedger ==
    (op = "add_data" /\ result = "True" /\ shown = "none") => FileHolds(file, sales_data)
\* a successful import onto a ledger that already had rows
C6_Witness ==
    op = "add_data" /\ result = "True" /\ shown = "none" /\ Len(sales_data.rows) = MaxRows

\* C7: when the write fails during add_data, the valid rows are appended in
\* memory all the same, the error is shown, and the backing file keeps its
\* previous content.
C7_WriteFailureKeepsFile ==
    [][(op' = "add_data" /\ shown' = "Save Error") =>
          (/\ Len(sales_data'.rows) > Len(sales_data.rows)
           /\ SubSeq(sales_data'.rows, 1, Len(sales_data.rows)) = sales_data.rows
           /\ file' = file)]_vars

\* C8: add_data returns failure when persisting the ledger to the backing
\* file fails; it returns success only when the rows were appended and written.
C8_WriteFailureReturnsFalse ==
    (op = "add_data" /\ shown = "Save Error") => result = "False"

\* C9: a well-formed ledger that was saved to the backing file is read back,
\* by a DataManager constructed on that file, with the same rows in the same
\* order.
C9_RoundTrip ==
    [][(Construct /\ FileHolds(file, sales_data) /\ C5_LedgerWellFormed) =>
          sales_data'.rows = sales_data.rows]_vars

\* C10: constructing the ledger raises nothing; on an absent file the ledger
\* is empty with the six canonical columns and nothing is shown, on a file
\* that cannot be parsed a load error is shown and the ledger is empty with
\* the six canonical columns.
C10_ConstructNeverRaises ==
    op = "init" =>
        /\ ~raised
        /\ (file.kind = "absent" =>
              (sales_data.rows = <<>> /\ sales_data.cols = required_cols /\ shown = "none"))
        /\ ((file.kind = "unparsable" \/ (file.kind = "csv" /\ LacksColumn([cols |-> file.header]))) =>
              (sales_data.rows = <<>> /\ sales_data.cols = required_cols
               /\ shown = "Data Load Error"))
\* a DataManager constructed on a file that cannot be parsed
C10_Witness ==
    op = "init" /\ file.kind = "unparsable" /\ shown = "Data Load Error"


(***************************************************************************)
(* The pages.  A handler runs when its button is pressed; it reads its     *)
(* entries, calls the DataManager and shows its message boxes.              *)
(***************************************************************************)
\* the DataManager's part of the state
dm == <<sales_data, file, op, result, shown, raised, args, ret, tie_order>>

\* The files a user can pick in the import page and what reading them gives:
\* a table, or an exception (an unreadable file, an unsupported file type).
ImportPaths == {"sales.csv", "week.xlsx", "nobranch.csv", "baddate.csv", "header.csv",
                "broken.csv", "notes.txt"}
read_raises(path) == path \in {"broken.csv", "notes.txt"}
read_table(path) ==
    CASE path = "sales.csv" -> [cols |-> required_cols, rows |-> <<GoodRow1>>]
      [] path = "week.xlsx" -> [cols |-> required_cols, rows |-> <<GoodRow2>>]
      [] path = "nobranch.csv" ->
            [cols |-> SelectSeq(required_cols, LAMBDA x : x # "Branch"),
             rows |-> <<Without(GoodRow1, "Branch")>>]
      [] path = "baddate.csv" ->
            [cols |-> required_cols,
             rows |-> <<[GoodRow1 EXCEPT !["Date"] = Str("not a date")]>>]
      [] path = "header.csv" -> [cols |-> required_cols, rows |-> <<>>]

\* DataImportPage.choose_file; path is what the file dialog returns, "" when
\* it is cancelled.
choose_file(path) ==
    /\ handler' = "choose_file"
    /\ file_path' = path
    /\ save_button' = IF path # "" THEN "disabled" ELSE save_button
    /\ entries' = <<>>
    /\ called' = <<>>
    /\ page_shown' = "none"
    /\ handler_raised' = FALSE
    /\ refreshed' = FALSE
    /\ UNCHANGED <<dm, preview_df, save_log, pending, active>>

\* DataImportPage.preview_data
preview_data ==
    /\ handler' = "preview_data"
    /\ entries' = <<>>
    /\ called' = <<>>
    /\ handler_raised' = FALSE
    /\ refreshed' = FALSE
    /\ UNCHANGED <<dm, file_path, save_log, pending, active>>
    /\ IF file_path = ""
       THEN /\ page_shown' = "No File"
            /\ UNCHANGED <<preview_df, save_button>>
       ELSE IF read_raises(file_path)
       THEN /\ page_shown' = "Preview Error"
            /\ preview_df' = NoDf
            /\ save_button' = "disabled"
       ELSE /\ page_shown' = "none"
            /\ preview_df' = read_table(file_path)
            /\ save_button' = IF has_required(read_table(file_path)) THEN "normal" ELSE "disabled"

\* add_data converts and cleans the table it is handed in place (new_df[...] =
\* ..., dropna(inplace=True)): what self.preview_df is after the call.
converted_in_place(new_df) ==
    IF ~has_required(new_df) \/ to_datetime_raises(new_df.rows) THEN new_df
    ELSE [cols |-> new_df.cols, rows |-> cleaned(new_df)]

\* The attributes a DataImportPage has; self.master is none of them.
import_page_attributes ==
    {"parent", "data_manager", "file_path", "preview_df", "file_label", "save_button",
     "status_label", "preview_text"}

\* DataImportPage.save_data, the command of the save button: a disabled
\* button runs no command.
save_data ==
    /\ save_button = "normal"
    /\ handler' = "save_data"
    /\ entries' = <<>>
    /\ UNCHANGED <<file_path, pending, active>>
    /\ IF preview_df = NoDf \/ preview_df.rows = <<>>
       THEN /\ page_shown' = "No Data"
            /\ called' = <<>>
            /\ handler_raised' = FALSE
            /\ refreshed' = FALSE
            /\ UNCHANGED <<dm, preview_df, save_button, save_log>>
       ELSE /\ add_data(preview_df)
            /\ called' = <<"add_data">>
            /\ preview_df' = converted_in_place(preview_df)
            /\ IF result' = "True"
               THEN /\ save_log' = Append(save_log, IF shown' = "Save Error" THEN "failed" ELSE "ok")
                    /\ save_button' = "disabled"
                    /\ page_shown' = "Import Success"
                    \* self.master.update_all_page_dropdowns()
                    /\ handler_raised' = ("master" \notin import_page_attributes)
                    /\ refreshed' = ("master" \in import_page_attributes)
               ELSE /\ page_shown' = "none"
                    /\ handler_raised' = FALSE
                    /\ refreshed' = FALSE
                    /\ UNCHANGED <<save_button, save_log>>

\* datetime.strptime(text, '%Y-%m-%d'): the day, or ValueError.  Month and
\* day may be written without the leading zero.
EntryTexts == {"2024-01-02", "2024-1-1", "01/02/2024"}
strptime_raises(t) == ~(IsDateText(t) \/ t = "2024-1-1")
strptime(t) == IF t = "2024-1-1" THEN ParseDate("2024-01-01") ELSE ParseDate(t)

\* weekly_sales_df['Total'].sum()
RECURSIVE col_sum_of_totals(_)
col_sum_of_totals(rows) ==
    IF rows = <<>> THEN 0 ELSE rows[1].Total + col_sum_of_totals(Tail(rows))

\* what the three pages show after their query returned
shown_after(qname, out) ==
    IF out.raised THEN "Error"
    ELSE IF qname = "get_weekly_sales"
         THEN (IF col_sum_of_totals(out.ret.rows) = 0 THEN "No Data" ELSE "none")
    ELSE IF qname = "get_product_preferences"
         THEN (IF out.ret.rows = <<>> THEN "No Data" ELSE "none")
    ELSE (IF out.ret.values = <<>> THEN "No Data" ELSE "none")

\* The three handlers turn a pair of entries down when a text is no date
\* (except ValueError) or the start is after the end.
rejects_format_only(start_str, end_str) ==
    strptime_raises(start_str) \/ strptime_raises(end_str)
rejects(start_str, end_str) ==
    \/ strptime_raises(start_str)
    \/ strptime_raises(end_str)
    \/ strptime(start_str) > strptime(end_str)

\* WeeklySalesPage.generate_summary, ProductPreferencePage.analyze_preferences
\* and SalesDistributionPage.analyze_distribution, which differ in the query
\* they call: a is the query's arguments and out its answer.
filter_page(name, qname, start_str, end_str, branch, a, out) ==
    /\ handler' = name
    /\ entries' = <<start_str, end_str, branch>>
    /\ handler_raised' = FALSE
    /\ refreshed' = FALSE
    /\ UNCHANGED <<file_path, preview_df, save_button, save_log, pending, active>>
    /\ IF empty(sales_data)
       THEN /\ page_shown' = "No Data"
            /\ called' = <<>>
            /\ UNCHANGED dm
       ELSE IF rejects(start_str, end_str)
       THEN /\ page_shown' = "Input Error"
            /\ called' = <<>>
            /\ UNCHANGED dm
       ELSE /\ called' = <<qname>>
            /\ query(qname, a, out)
            /\ page_shown' = shown_after(qname, out)

PageBranches == {"All Branches"}
generate_summary ==
    \E start_str \in EntryTexts, end_str \in EntryTexts, branch \in PageBranches :
        LET s == strptime(start_str)
            e == strptime(end_str)
        IN filter_page("generate_summary", "get_weekly_sales", start_str, end_str, branch,
                       <<s, e, branch>>, get_weekly_sales(sales_data, s, e, branch))
analyze_preferences ==
    \E start_str \in EntryTexts, end_str \in EntryTexts, branch \in PageBranches :
        LET s == strptime(start_str)
            e == strptime(end_str)
        IN filter_page("analyze_preferences", "get_product_preferences", start_str, end_str,
                       branch, <<<<s, e>>, branch>>,
                       get_product_preferences(sales_data, <<s, e>>, branch, tie_order))
analyze_distribution ==
    \E start_str \in EntryTexts, end_str \in EntryTexts, branch \in PageBranches :
        LET s == strptime(start_str)
            e == strptime(end_str)
        IN filter_page("analyze_distribution", "get_sales_distribution", start_str, end_str,
                       branch, <<<<s, e>>, branch>>,
                       get_sales_distribution(sales_data, <<s, e>>, branch))

\* The import page in use: the program was started on no backing file, on a
\* file of one record, or on a file whose date does not parse.
PageFiles ==
    {AbsentFile, CsvFile(required_cols, <<GoodLine2>>),
     CsvFile(required_cols, <<Line("not a date", "Kandy", "Milk", "1", "2", "2")>>)}
ImportInit == Init /\ file \in PageFiles
ImportNext ==
    \/ \E path \in ImportPaths \cup {""} : choose_file(path)
    \/ preview_data
    \/ save_data
ImportSpec == ImportInit /\ [][ImportNext]_vars

\* The three pages with date entries in use, on the ledger the program loaded.
FilterNext ==
    \/ generate_summary
    \/ analyze_preferences
    \/ analyze_distribution
FilterSpec == Init /\ [][FilterNext]_vars

(***************************************************************************)
(* The event loop.  The program is one thread running app.mainloop(): a     *)
(* button press is queued by Tk while a callback runs and is dispatched     *)
(* when the loop is idle.  add_data is followed here through its steps: it  *)
(* reads the ledger and concatenates (line 68, right-hand side), assigns    *)
(* self.sales_data (line 68), writes the file (line 69).                    *)
(***************************************************************************)
MaxPending == 2

\* the presses: Save to System with a previewed table, or a page's query button
StepTables ==
    {[cols |-> required_cols, rows |-> <<GoodRow1>>],
     [cols |-> required_cols, rows |-> <<GoodRow2>>],
     [cols |-> required_cols, rows |-> <<[GoodRow1 EXCEPT !["Date"] = Str("not a date")]>>]}
Presses == {[kind |-> "save", df |-> t] : t \in StepTables} \cup {[kind |-> "query", df |-> NoDf]}

\* the user presses a button; the window system queues the press whatever the
\* program is doing
press(e) ==
    /\ Len(pending) < MaxPending
    /\ pending' = Append(pending, e)
    /\ UNCHANGED <<dm, file_path, preview_df, save_button, handler, entries, called,
                   page_shown, handler_raised, refreshed, save_log, active>>

\* a second thread would dispatch whatever the first is doing
mainloop_idle_threaded == TRUE
\* mainloop() calls the next callback when the one before has returned
mainloop_idle == active = <<>>

\* add_data comes to line 68 with a table that has valid rows
passes_checks(new_df) ==
    /\ has_required(new_df)
    /\ ~to_datetime_raises(new_df.rows)
    /\ ~is_empty(cleaned(new_df))

\* the press of Save to System is dispatched: add_data runs up to the
\* concatenation of the ledger it reads with the valid rows, or takes one of
\* its failure exits
dispatch_save ==
    /\ mainloop_idle
    /\ pending # <<>>
    /\ Head(pending).kind = "save"
    /\ pending' = Tail(pending)
    /\ UNCHANGED <<file_path, preview_df, save_button, handler, entries, called, page_shown,
                   handler_raised, refreshed, save_log>>
    /\ LET new_df == Head(pending).df IN
       IF passes_checks(new_df)
       THEN /\ Len(sales_data.rows) + Len(cleaned(new_df)) <= MaxRows
            /\ active' = Append(active,
                                [pc |-> "read",
                                 joined |-> concat(sales_data,
                                                   [cols |-> new_df.cols, rows |-> cleaned(new_df)])])
            /\ UNCHANGED dm
       ELSE /\ add_data(new_df)
            /\ UNCHANGED active

\* self.sales_data = <the concatenation>
assign ==
    \E i \in 1..Len(active) :
        /\ active[i].pc = "read"
        /\ sales_data' = active[i].joined
        /\ active' = [active EXCEPT ![i].pc = "assigned"]
        /\ UNCHANGED <<file, op, result, shown, raised, args, ret, tie_order, file_path,
                       preview_df, save_button, handler, entries, called, page_shown,
                       handler_raised, refreshed, save_log, pending>>

\* self._save_data(); return True
write ==
    \E i \in 1..Len(active) :
        /\ active[i].pc = "assigned"
        /\ \E o \in _save_data(file, sales_data) :
              /\ file' = o.file
              /\ shown' = o.shown
        /\ op' = "add_data"
        /\ result' = "True"
        /\ raised' = FALSE
        /\ args' = <<>>
        /\ ret' = <<>>
        /\ active' = RemoveAt(active, i)
        /\ UNCHANGED <<sales_data, tie_order, file_path, preview_df, save_button, handler,
                       entries, called, page_shown, handler_raised, refreshed, save_log,
                       pending>>

\* the press of a page's button is dispatched: its query runs and returns
dispatch_query ==
    /\ mainloop_idle
    /\ pending # <<>>
    /\ Head(pending).kind = "query"
    /\ pending' = Tail(pending)
    /\ query("get_branches", <<>>, get_branches(sales_data))
    /\ UNCHANGED <<file_path, preview_df, save_button, handler, entries, called, page_shown,
                   handler_raised, refreshed, save_log, active>>

StepInit == Init /\ file \in PageFiles
StepNext ==
    \/ \E e \in Presses : press(e)
    \/ dispatch_save
    \/ assign
    \/ write
    \/ dispatch_query
StepSpec == StepInit /\ [][StepNext]_vars

(***************************************************************************)
(* The queries' claims, under QSpec.                                        *)
(***************************************************************************)
\* C11: no query changes the in-memory ledger or the backing file, whatever
\* the ledger holds and whatever the filter arguments are.
C11_QueriesReadOnly ==
    [][op' \in Queries => (sales_data' = sales_data /\ file' = file)]_vars
\* a filtered query answered on a full ledger that has rows of other branches
C11_Witness ==
    /\ op = "get_monthly_sales"
    /\ ~raised
    /\ args[1] = "Colombo"
    /\ Len(sales_data.rows) = MaxRows
    /\ \E i \in 1..Len(sales_data.rows) : sales_data.rows[i]["Branch"] # Str("Colombo")


\* the same query asked again with the same arguments of an unchanged ledger
SameCall == op \in Queries /\ op' = op /\ args' = args /\ sales_data' = sales_data
SameAnswer == raised' = raised /\ ret' = ret

\* C12: every query is a pure function of the ledger and the arguments: asked
\* twice with the same arguments of the same ledger it answers the same,
\* get_years on an empty ledger included, whenever it is asked.
C12_QueriesPure == [][SameCall => SameAnswer]_vars
\* C12, amended: every query but get_years on an empty ledger is a pure
\* function of the ledger and the arguments; get_years on an empty ledger
\* answers the one-element list of the year the clock shows.
C12_QueriesPureButClock ==
    [][/\ (SameCall /\ ~(op = "get_years" /\ empty(sales_data))) => SameAnswer
       /\ (op' = "get_years" /\ empty(sales_data')) =>
             (~raised' /\ \E now \in Clock : ret' = <<now>>)]_vars
\* get_years answered from a ledger that has rows of both years
C12_Witness ==
    op = "get_years" /\ ~raised /\ ~empty(sales_data) /\ Len(ret) = 2


\* What the claims say of an answer, said of the ledger the query was asked
\* of (a query leaves it in place): the records in an inclusive date range, of
\* a branch, and the sum of a column over a set of records.
InRange(r, start, end) == r["Date"].k = "ts" /\ start <= r["Date"].n /\ r["Date"].n <= end
BranchMatches(r, branch) == branch \in {"", "All Branches"} \/ r["Branch"] = Str(branch)
RangeMatches(r, date_range) == date_range = <<>> \/ InRange(r, date_range[1], date_range[2])
RECURSIVE SumAt(_, _)
SumAt(I, c) ==
    IF I = {} THEN 0
    ELSE LET i == CHOOSE x \in I : TRUE IN sales_data.rows[i][c].n + SumAt(I \ {i}, c)
Records == 1..Len(sales_data.rows)

\* the records get_weekly_sales(start, end, branch) is about, those of weekday d
WeeklyMatches(d) ==
    {i \in Records :
        /\ InRange(sales_data.rows[i], args[1], args[2])
        /\ BranchMatches(sales_data.rows[i], args[3])
        /\ DayNameOf[sales_data.rows[i]["Date"].n] = d}

\* C13: get_weekly_sales returns exactly seven rows, Monday to Sunday in that
\* order, for every ledger, date range and branch; a weekday without a
\* matching transaction has Total 0.
C13_WeeklySevenRows ==
    op = "get_weekly_sales" =>
        /\ ~raised
        /\ Len(ret.rows) = 7
        /\ \A i \in 1..7 :
              /\ ret.rows[i].DayOfWeek = WeekDays[i]
              /\ WeeklyMatches(WeekDays[i]) = {} => ret.rows[i].Total = 0

\* C14: the Total get_weekly_sales reports for a weekday is the sum of Total
\* over exactly the transactions in the inclusive range, of the branch, that
\* fall on that weekday; the seven totals add up to the sum over all matching
\* transactions, also when the range spans more than one week.
C14_WeeklyTotals ==
    op = "get_weekly_sales" =>
        /\ ~raised
        /\ \A i \in 1..Len(ret.rows) :
              ret.rows[i].Total = SumAt(WeeklyMatches(ret.rows[i].DayOfWeek), "Total")
        /\ col_sum_of_totals(ret.rows) =
              SumAt(UNION {WeeklyMatches(d) : d \in Range(WeekDays)}, "Total")


\* the records get_monthly_sales(branch, year, month) is about
MonthlyMatches ==
    {i \in Records :
        LET r == sales_data.rows[i] IN
        /\ BranchMatches(r, args[1])
        /\ args[2] # 0 => (r["Date"].k = "ts" /\ YearOf[r["Date"].n] = args[2])
        /\ args[3] # 0 => (r["Date"].k = "ts" /\ MonthOf[r["Date"].n] = args[3])}
OfProduct(I, p) == {i \in I : sales_data.rows[i]["Product"] = Str(p)}
ProductsOf(I) == {sales_data.rows[i]["Product"].s : i \in I}
\* one row for each product of the records I and for no other
OneRowPerProduct(rows, I) ==
    /\ {rows[i].Product : i \in 1..Len(rows)} = ProductsOf(I)
    /\ Len(rows) = Cardinality(ProductsOf(I))

\* C15: get_monthly_sales returns exactly one row per product that has a
\* transaction matching the branch, year and month filters; the row's
\* Quantity and Total are the sums over the matching transactions of the
\* product and its UnitPrice is their arithmetic mean.
C15_MonthlySums ==
    op = "get_monthly_sales" =>
        /\ ~raised
        /\ OneRowPerProduct(ret.rows, MonthlyMatches)
        /\ \A i \in 1..Len(ret.rows) :
              LET M == OfProduct(MonthlyMatches, ret.rows[i].Product) IN
              /\ ret.rows[i].Quantity = SumAt(M, "Quantity")
              /\ ret.rows[i].Total = SumAt(M, "Total")
              /\ ret.rows[i].UnitPrice.num * Cardinality(M) =
                    SumAt(M, "UnitPrice") * ret.rows[i].UnitPrice.den


\* the (Date, UnitPrice) pairs of the transactions of product args[1]
PricePairs ==
    {<<sales_data.rows[i]["Date"], sales_data.rows[i]["UnitPrice"].n>> :
        i \in {j \in Records : sales_data.rows[j]["Product"] = Str(args[1])}}
IsDay(x) == x.k = "ts" \/ IsDateText(x.s)
DayOf(x) == IF x.k = "ts" THEN x.n ELSE ParseDate(x.s)

\* C16: get_product_price_history(p) returns exactly one row per distinct
\* (Date, UnitPrice) pair of the transactions of product p, none repeated and
\* none missing, in ascending order of Date.
C16_PriceHistory ==
    op = "get_product_price_history" =>
        /\ ~raised
        /\ {<<ret.rows[i].Date, ret.rows[i].UnitPrice>> : i \in 1..Len(ret.rows)} = PricePairs
        /\ Len(ret.rows) = Cardinality(PricePairs)
        /\ \A i, j \in 1..Len(ret.rows) :
              (i < j /\ IsDay(ret.rows[i].Date) /\ IsDay(ret.rows[j].Date)) =>
                  DayOf(ret.rows[i].Date) <= DayOf(ret.rows[j].Date)


\* the place of a product in the order groupby('Product') produces
GroupingPlace(p) == CHOOSE k \in 1..Len(Alphabetical) : Alphabetical[k] = p

\* C17: the rows get_product_preferences returns are in non-increasing order
\* of UnitsSold, and products of equal UnitsSold are in the order the
\* grouping produced them.
C17_PreferencesSorted ==
    (op = "get_product_preferences" /\ ~raised) =>
        \A i, j \in 1..Len(ret.rows) :
            i < j =>
                /\ ret.rows[i].UnitsSold >= ret.rows[j].UnitsSold
                /\ ret.rows[i].UnitsSold = ret.rows[j].UnitsSold =>
                      GroupingPlace(ret.rows[i].Product) < GroupingPlace(ret.rows[j].Product)

\* the records get_product_preferences / get_sales_distribution (date_range,
\* branch) are about
FilterMatches ==
    {i \in Records :
        /\ RangeMatches(sales_data.rows[i], args[1])
        /\ BranchMatches(sales_data.rows[i], args[2])}

\* C18: get_product_preferences returns exactly one row per product that has
\* a transaction in the optional inclusive date range and of the optional
\* branch, with UnitsSold the sum of Quantity and Revenue the sum of Total
\* over the matching transactions of the product.
C18_PreferenceSums ==
    op = "get_product_preferences" =>
        /\ ~raised
        /\ OneRowPerProduct(ret.rows, FilterMatches)
        /\ \A i \in 1..Len(ret.rows) :
              LET M == OfProduct(FilterMatches, ret.rows[i].Product) IN
              /\ ret.rows[i].UnitsSold = SumAt(M, "Quantity")
              /\ ret.rows[i].Revenue = SumAt(M, "Total")

\* the matching records in ledger order
RECURSIVE InOrder(_)
InOrder(I) ==
    IF I = {} THEN <<>>
    ELSE LET m == CHOOSE x \in I : \A y \in I : x <= y IN <<m>> \o InOrder(I \ {m})

\* C19: get_sales_distribution returns one Total per transaction in the
\* inclusive range (when given) and of the branch (when given), in ledger
\* order; without filters one value per transaction of the whole ledger.
C19_DistributionValues ==
    op = "get_sales_distribution" =>
        /\ ~raised
        /\ ret.values = [k \in 1..Cardinality(FilterMatches) |->
                            sales_data.rows[InOrder(FilterMatches)[k]]["Total"].n]
        /\ (args[1] = <<>> /\ args[2] = "") => Len(ret.values) = Len(sales_data.rows)


\* the columns of the table a query answers with
ColumnsOf(name) ==
    CASE name = "get_monthly_sales" -> <<"Product", "Quantity", "UnitPrice", "Total">>
      [] name = "get_product_price_history" -> <<"Date", "UnitPrice">>
      [] name = "get_weekly_sales" -> <<"DayOfWeek", "Total">>
      [] name = "get_product_preferences" -> <<"Product", "UnitsSold", "Revenue">>
ListQueries == {"get_branches", "get_products", "get_years"}
TableQueries == {"get_monthly_sales", "get_product_price_history", "get_weekly_sales",
                 "get_product_preferences"}
\* an empty answer of the right columns
EmptyAnswer ==
    /\ op \in ListQueries => ret = <<>>
    /\ op \in TableQueries => (ret.rows = <<>> /\ ret.cols = ColumnsOf(op))
    /\ op = "get_sales_distribution" => ret.values = <<>>

\* C20: every query against an empty ledger returns an empty result of the
\* right columns and never an error.
C20_EmptyLedgerEmptyResult ==
    (op \in Queries /\ sales_data.rows = <<>>) => (~raised /\ EmptyAnswer)
\* C20, amended: against an empty ledger no query raises; get_years answers
\* the one-element list of the clock's year and get_weekly_sales the seven
\* weekdays with Total 0; every other query answers an empty result of the
\* right columns (get_sales_distribution an empty series without a name).
C20_EmptyLedgerAnswers ==
    (op \in Queries /\ sales_data.rows = <<>>) =>
        /\ ~raised
        /\ op \notin {"get_years", "get_weekly_sales"} => EmptyAnswer
        /\ op = "get_years" => (Len(ret) = 1 /\ ret[1] \in Clock)
        /\ op = "get_weekly_sales" =>
              /\ ret.cols = ColumnsOf(op)
              /\ Len(ret.rows) = 7
              /\ \A i \in 1..7 : ret.rows[i] = [DayOfWeek |-> WeekDays[i], Total |-> 0]
        /\ op = "get_sales_distribution" => ret.name = ""
\* get_weekly_sales asked of a ledger without records
C20_Witness ==
    op = "get_weekly_sales" /\ sales_data.rows = <<>> /\ ~raised /\ args[3] = "Colombo"


\* no record of the ledger matches the filters the query was asked with
NoMatch ==
    CASE op = "get_monthly_sales" -> MonthlyMatches = {}
      [] op = "get_product_price_history" -> PricePairs = {}
      [] op \in {"get_product_preferences", "get_sales_distribution"} -> FilterMatches = {}
FilteredQueries == {"get_monthly_sales", "get_product_price_history",
                    "get_product_preferences", "get_sales_distribution"}

\* C21: on a ledger that has records, a query whose filters match no
\* transaction (get_monthly_sales, get_product_price_history,
\* get_product_preferences, get_sales_distribution) returns an empty result
\* with its columns (a Total series for the distribution) and does not raise.
C21_NoMatchEmptyResult ==
    (op \in FilteredQueries /\ sales_data.rows # <<>> /\ NoMatch) =>
        /\ ~raised
        /\ op # "get_sales_distribution" => (ret.rows = <<>> /\ ret.cols = ColumnsOf(op))
        /\ op = "get_sales_distribution" => (ret.values = <<>> /\ ret.name = "Total")


\* the texts of a column of the ledger
ValuesOf(c) == {sales_data.rows[i][c].s : i \in Records}
ColumnListed == IF op = "get_branches" THEN "Branch" ELSE "Product"

\* C22: get_branches (get_products) returns each branch (product) of the
\* ledger exactly once, nothing that is not in the ledger, in ascending
\* alphabetical order.
C22_BranchesProductsSortedDistinct ==
    op \in {"get_branches", "get_products"} =>
        /\ ~raised
        /\ Range(ret) = ValuesOf(ColumnListed)
        /\ Len(ret) = Cardinality(ValuesOf(ColumnListed))
        /\ \A i, j \in 1..Len(ret) : i < j => GroupingPlace(ret[i]) < GroupingPlace(ret[j])
\* two branches listed from a ledger that holds them in the opposite order
C22_Witness ==
    /\ op = "get_branches"
    /\ Len(ret) = 2
    /\ sales_data.rows[1]["Branch"] = Str(ret[2])

\* C23: get_years returns the distinct calendar years of the ledger's dates,
\* each once, ascending; on an empty ledger the one-element list of the
\* current year.
C23_YearsSortedDistinct ==
    op = "get_years" =>
        /\ ~raised
        /\ sales_data.rows = <<>> => (Len(ret) = 1 /\ ret[1] \in Clock)
        /\ sales_data.rows # <<>> =>
              /\ Range(ret) = {YearOf[sales_data.rows[i]["Date"].n] : i \in Records}
              /\ \A i, j \in 1..Len(ret) : i < j => ret[i] < ret[j]


\* the rows of s are the first rows of t, in the same order and unmodified
IsPrefix(s, t) == Len(s) <= Len(t) /\ SubSeq(t, 1, Len(s)) = s

\* C24: after the load the ledger only grows: every call of the DataManager
\* leaves the records it found in place, in order and unmodified, so the row
\* count never decreases; the only call that changes the ledger is an
\* add_data that returns True.
C24_LedgerOnlyGrows ==
    [][op' # "init" =>
          /\ IsPrefix(sales_data.rows, sales_data'.rows)
          /\ sales_data' # sales_data => (op' = "add_data" /\ result' = "True")]_vars
\* an import that grew a ledger loaded with a text date, after which a query ran
C24_Witness ==
    /\ op \in Queries
    /\ Len(sales_data.rows) = MaxRows
    /\ sales_data.rows[1]["Date"].k = "str"
    /\ sales_data.rows[MaxRows]["Date"].k = "ts"


\* what the query of the last call answers when asked without a branch
AnswerWithoutBranch ==
    CASE op = "get_monthly_sales" -> get_monthly_sales(sales_data, "", args[2], args[3])
      [] op = "get_weekly_sales" -> get_weekly_sales(sales_data, args[1], args[2], "")
      [] op = "get_product_preferences" ->
            get_product_preferences(sales_data, args[1], "", tie_order)
      [] op = "get_sales_distribution" -> get_sales_distribution(sales_data, args[1], "")
BranchOfCall == IF op = "get_weekly_sales" THEN args[3]
                ELSE IF op = "get_monthly_sales" THEN args[1] ELSE args[2]
BranchQueries == {"get_monthly_sales", "get_weekly_sales", "get_product_preferences",
                  "get_sales_distribution"}

\* C28: in get_monthly_sales, get_weekly_sales, get_product_preferences and
\* get_sales_distribution the branch "All Branches" gives exactly the result
\* of no branch, for every ledger, also one that holds transactions of a
\* branch named "All Branches".
C28_AllBranchesIsNoBranch ==
    (op \in BranchQueries /\ BranchOfCall = "All Branches") =>
        (raised = AnswerWithoutBranch.raised /\ ret = AnswerWithoutBranch.ret)
\* asked for "All Branches" of a ledger that has a branch of that name and another
C28_Witness ==
    /\ op = "get_sales_distribution"
    /\ args[2] = "All Branches"
    /\ ~raised
    /\ Len(ret.values) = 2
    /\ \E i \in Records : sales_data.rows[i]["Branch"] = Str("All Branches")
    /\ \E i \in Records : sales_data.rows[i]["Branch"] # Str("All Branches")


(***************************************************************************)
(* The pages' claims, under FilterSpec and ImportSpec.                      *)
(***************************************************************************)
FilterHandlers == {"generate_summary", "analyze_preferences", "analyze_distribution"}
\* a date entry that is no date, or a start after the end
Malformed(start_str, end_str) ==
    \/ strptime_raises(start_str)
    \/ strptime_raises(end_str)
    \/ strptime(start_str) > strptime(end_str)
MalformedRequest == handler \in FilterHandlers /\ Malformed(entries[1], entries[2])

Imported == handler = "save_data" /\ called = <<"add_data">> /\ result = "True"

\* C26: after an import whose write failed, the next import whose write
\* succeeds leaves the backing file equal to the whole in-memory ledger, the
\* rows of the failed-write import included.
C26_NextWriteResyncs ==
    (/\ Imported
     /\ Len(save_log) >= 2
     /\ save_log[Len(save_log) - 1] = "failed"
     /\ save_log[Len(save_log)] = "ok") => FileHolds(file, sales_data)
\* an import written in full right after an import whose write failed
C26_Witness ==
    /\ Imported
    /\ save_log = <<"failed", "ok">>
    /\ Len(sales_data.rows) = 2
    /\ Len(file.lines) = 2

\* C29: when save_data has imported the previewed table, the handler runs to
\* its end without raising and MainApp.update_all_page_dropdowns is invoked.
C29_SaveRefreshesPages ==
    Imported => (~handler_raised /\ refreshed)

\* C30: over any sequence of choose_file, preview_data and save_data the save
\* button is enabled only after a preview_data, the most recent since the last
\* choose_file, that read the file and found the six required columns:
\* choose_file, a failed or column-deficient preview and a successful save
\* leave it disabled, only such a preview enables it, and add_data is reached
\* from the page only with a table that has the required columns.
C30_SaveButtonGuard ==
    [][/\ handler' = "choose_file" => save_button' = "disabled"
       /\ (handler' = "preview_data" /\ file_path # "" /\
             (read_raises(file_path) \/ LacksColumn(read_table(file_path)))) =>
                save_button' = "disabled"
       /\ (handler' = "save_data" /\ called' = <<"add_data">> /\ result' = "True") =>
             save_button' = "disabled"
       /\ (save_button' = "normal" /\ save_button = "disabled") =>
             /\ handler' = "preview_data"
             /\ file_path # ""
             /\ ~read_raises(file_path)
             /\ ~LacksColumn(read_table(file_path))
       /\ (handler' = "save_data" /\ called' = <<"add_data">>) => ~LacksColumn(preview_df)]_vars


(***************************************************************************)
(* The event loop's claim, under StepSpec.                                  *)
(***************************************************************************)
\* C27: at most one add_data is between its read of the ledger and the end
\* of its file write; while one is there no second add_data and no query
\* starts, and no step takes rows out of the ledger.
C27_OneImportAtATime ==
    [][/\ Len(active') <= 1
       /\ active # <<>> => Len(pending') >= Len(pending)
       /\ IsPrefix(sales_data.rows, sales_data'.rows)]_vars
\* an import that has assigned the ledger and not yet written, with a second
\* Save press and a query press waiting
C27_Witness ==
    /\ Len(active) = 1
    /\ active[1].pc = "assigned"
    /\ Len(pending) = 2
    /\ pending[1].kind = "save"
    /\ pending[2].kind = "query"

====
